---- MODULE Spec2Model ----
(***************************************************************************)
(* Model of fylearn/garules.py: the prototype classifiers                  *)
(* MultimodalEvolutionaryClassifier (one prototype per class) and          *)
(* EnsembleMultimodalEvolutionaryClassifier (n_models prototypes per       *)
(* class), their fit and predict methods and the StoeanDistance measure.   *)
(*                                                                         *)
(* Feature values are small naturals.  A distance |x - c| / d[f] is kept   *)
(* exactly: a finite value is stored multiplied by Den(d), the product of  *)
(* the nonzero scale entries, and a division by a zero scale entry yields  *)
(* the IEEE results numpy produces (0/0 = nan, x/0 = inf).                 *)
(***************************************************************************)
EXTENDS Integers, Sequences, FiniteSets, TLC

\* ---- bounds of the model -------------------------------------------------
MaxVal == 1
MaxRows == 2
MaxF == 2
MaxLabel == 2
MaxModels == 2
MaxIter == 2
MaxSeed == 1
RsMod == 4
MaxCalls == 2

Val == 0..MaxVal
Labels == 1..MaxLabel
Chromosomes(F) == [1..F -> Val]
Tables(F) == UNION {[1..m -> [1..F -> Val]] : m \in 1..MaxRows}
AllTables == UNION {Tables(F) : F \in 1..MaxF}
LabelVectors(m) == [1..m -> Labels]
\* random_state attribute: << >> is None, <<s>> is the integer seed s
Seeds == {<< >>} \cup {<<s>> : s \in 0..MaxSeed}

NCols(X) == Len(X[1])
Abs(n) == IF n < 0 THEN 0 - n ELSE n
Range(s) == {s[i] : i \in DOMAIN s}

\* ---- IEEE values of a score ----------------------------------------------
Fin(n) == [k |-> "fin", v |-> n]
Inf == [k |-> "inf", v |-> 0]
NaN == [k |-> "nan", v |-> 0]

RECURSIVE Den(_)
Den(d) == IF d = << >> THEN 1
          ELSE (IF Head(d) = 0 THEN 1 ELSE Head(d)) * Den(Tail(d))

\* n / dv for n >= 0, the finite result scaled by den
fdiv(n, dv, den) ==
    IF dv = 0 THEN (IF n = 0 THEN NaN ELSE Inf)
    ELSE Fin(n * (den \div dv))

fadd(a, b) ==
    IF a.k = "nan" \/ b.k = "nan" THEN NaN
    ELSE IF a.k = "inf" \/ b.k = "inf" THEN Inf
    ELSE Fin(a.v + b.v)

\* IEEE a < b: false as soon as one side is nan
flt(a, b) ==
    /\ a.k # "nan" /\ b.k # "nan"
    /\ a.k = "fin"
    /\ (b.k = "inf" \/ a.v < b.v)

RECURSIVE np_sum(_)
np_sum(s) == IF s = << >> THEN Fin(0) ELSE fadd(Head(s), np_sum(Tail(s)))

\* np.argmin of one row (1-based): the first nan if there is one, else the
\* first position holding the minimum
np_argmin(r) ==
    IF \E j \in DOMAIN r : r[j].k = "nan"
    THEN CHOOSE j \in DOMAIN r :
            r[j].k = "nan" /\ \A z \in DOMAIN r : z < j => r[z].k # "nan"
    ELSE CHOOSE j \in DOMAIN r :
            /\ \A z \in DOMAIN r : ~ flt(r[z], r[j])
            /\ \A z \in DOMAIN r : z < j => flt(r[j], r[z])

\* ---- numpy helpers --------------------------------------------------------
RECURSIVE SortedSeq(_)
SortedSeq(S) ==
    IF S = {} THEN << >>
    ELSE LET m == CHOOSE x \in S : \A z \in S : x <= z
         IN  <<m>> \o SortedSeq(S \ {m})

\* np.unique(y): the sorted distinct labels
np_unique(y) == SortedSeq(Range(y))

ColMax(X, f) == CHOOSE v \in {X[i][f] : i \in DOMAIN X} :
                    \A i \in DOMAIN X : X[i][f] <= v
ColMin(X, f) == CHOOSE v \in {X[i][f] : i \in DOMAIN X} :
                    \A i \in DOMAIN X : v <= X[i][f]

\* np.nanmax(X, 0) - np.nanmin(X, 0)
ScaleOf(X) == [f \in 1..NCols(X) |-> ColMax(X, f) - ColMin(X, f)]

\* X[y == c_value]: the rows labelled c_value, in order
RECURSIVE MaskRows(_, _, _)
MaskRows(X, y, c) ==
    IF X = << >> THEN << >>
    ELSE (IF Head(y) = c THEN <<Head(X)>> ELSE << >>)
            \o MaskRows(Tail(X), Tail(y), c)

\* numpy broadcasting of two trailing axes; 0 when the shapes do not fit
Bc(n, m) == IF n = m THEN n
            ELSE IF n = 1 THEN m
            ELSE IF m = 1 THEN n
            ELSE 0

\* element f of a vector broadcast over a longer axis
At(v, f) == IF Len(v) = 1 THEN v[1] ELSE v[f]

\* trailing axis of (X - c) / d, 0 when numpy raises ValueError
ShapeOf(X, c, d) ==
    LET g == Bc(NCols(X), Len(c))
    IN  IF g = 0 THEN 0 ELSE Bc(g, Len(d))

\* np.sum(np.abs(x - c) / d) for one row x over a trailing axis of length g
RowDistance(x, c, d, g) ==
    np_sum([f \in 1..g |->
              fdiv(Abs(At(x, f) - At(c, f)), At(d, f), Den(d))])

\* StoeanDistance.pairwise(X, c): one distance per row of X
pairwise(X, c, d) ==
    [i \in DOMAIN X |-> RowDistance(X[i], c, d, ShapeOf(X, c, d))]

\* ---- the pseudo-random source (numpy RandomState) -------------------------
\* The generator is a small linear congruential one: what matters is that it is
\* a stateful, deterministic function of its seed.
RsNext(s) == (5 * s + 3) % RsMod

\* a draw in 0..n-1 from the state s
Draw(s, n) == (s \div 2) % n

\* RandomState(seed) for an integer seed
SeedState(seed) == seed % RsMod

\* random_state.choice(n, size): size indices (1-based) with replacement
RECURSIVE choice(_, _, _)
choice(rs, n, size) ==
    IF size = 0 THEN [idx |-> << >>, rs |-> rs]
    ELSE LET rest == choice(RsNext(rs), n, size - 1)
         IN  [idx |-> <<Draw(rs, n) + 1>> \o rest.idx, rs |-> rest.rs]

\* ---- the genetic search (fylearn.ga) --------------------------------------
\* The chromosomes the search can return for a sample: every gene lies in the
\* range the sample's rows span for that feature.
Box(Xs) == {c \in Chromosomes(NCols(Xs)) :
               \A f \in 1..NCols(Xs) : ColMin(Xs, f) <= c[f] /\ c[f] <= ColMax(Xs, f)}

RECURSIVE Advance(_, _)
Advance(s, n) == IF n = 0 THEN s ELSE Advance(RsNext(s), n - 1)

RECURSIVE Genes(_, _, _)
Genes(rs, Xs, f) ==
    IF f > NCols(Xs) THEN [c |-> << >>, rs |-> rs]
    ELSE LET lo   == ColMin(Xs, f)
             g    == lo + Draw(rs, ColMax(Xs, f) - lo + 1)
             rest == Genes(RsNext(rs), Xs, f + 1)
         IN  [c |-> <<g>> \o rest.c, rs |-> rest.rs]

\* helper_n_generations(ga, n_iterations) then ga.best(1) on the source rs:
\* each generation consumes the source, the result is a function of its state
GABest(rs, Xs, n_iterations) == Genes(Advance(rs, n_iterations), Xs, 1)

\* ---- instances ------------------------------------------------------------
NoAttrs == {}

Construct(kind, n_iterations, n_models, random_state) ==
    [kind         |-> kind,
     n_iterations |-> n_iterations,
     n_models     |-> n_models,
     random_state |-> random_state,
     attrs        |-> NoAttrs,
     classes_     |-> << >>,
     d            |-> << >>,
     models_      |-> << >>]

\* __init__ of the two classes
SingleInstances ==
    {Construct("single", n, 0, << >>) : n \in 1..MaxIter}
EnsembleInstances ==
    {Construct("ensemble", x[1], x[2], x[3]) :
        x \in (1..MaxIter) \X (1..MaxModels) \X Seeds}

SetAttr(m, k, v) == [x \in DOMAIN m \cup {k} |-> IF x = k THEN v ELSE m[x]]

\* the call's outcome: what it raised or returned
Returned(op, X, out, labels, scores) ==
    [op |-> op, X |-> X, out |-> out, labels |-> labels, scores |-> scores]
Raised(op, X, err) == Returned(op, X, err, << >>, << >>)
NoCall == Returned("none", << >>, "ok", << >>, << >>)

Zeros(rows, cols) == [i \in 1..rows |-> [j \in 1..cols |-> Fin(0)]]

\* the column store of a row-summed score: every row gets the total
SetColumnTotal(a, j, col) == [i \in DOMAIN a |-> [a[i] EXCEPT ![j] = np_sum(col)]]

\* a[:, j] = col for a per-row vector, a[:, j] = s for a scalar
SetColumn(a, j, col) == [i \in DOMAIN a |-> [a[i] EXCEPT ![j] = col[i]]]
FillColumn(a, j, s) == [i \in DOMAIN a |-> [a[i] EXCEPT ![j] = s]]

\* the position returned in place of the label at that position
take_index(classes, idx) == idx

\* self.classes_.take(np.argmin(R, 1))
take(classes, idx) == classes[idx]
TakeArgmin(classes, R) == [i \in DOMAIN R |-> take(classes, np_argmin(R[i]))]

\* ---- MultimodalEvolutionaryClassifier -------------------------------------
\* the previous models kept: fit merges into them
models_kept(self) == self.models_

\* models = {} at the start of fit
models_init(self) == << >>

RECURSIVE SingleBuild(_, _, _)
SingleBuild(classes, ga, models) ==
    IF classes = << >> THEN models
    ELSE SingleBuild(Tail(classes), ga,
                     SetAttr(models, Head(classes), ga[Head(classes)]))

\* the results the searches of one fit can give: one chromosome per class.
\* The search draws from its own random source here.
SingleSearches(X, y) ==
    {ga \in [Range(y) -> Chromosomes(NCols(X))] :
        \A c \in Range(y) : ga[c] \in Box(MaskRows(X, y, c))}

\* fit(X, y); ga_raises: a search raises while the models are built
SingleFit(self, X, y, ga, ga_raises) ==
    LET s1 == [self EXCEPT !.classes_ = np_unique(y),
                           !.attrs = @ \cup {"classes_"}]
        s2 == [s1 EXCEPT !.d = ScaleOf(X), !.attrs = @ \cup {"d"}]
    IN  IF ga_raises THEN s2
        ELSE [s2 EXCEPT !.models_ = SingleBuild(s2.classes_, ga, models_init(self)),
                        !.attrs = @ \cup {"models_"}]

\* the loop of predict over the classes, from class c_idx on
RECURSIVE SingleScores(_, _, _, _)
SingleScores(self, X, c_idx, R) ==
    IF c_idx > Len(self.classes_) THEN [out |-> "ok", R |-> R]
    ELSE LET c_value == self.classes_[c_idx]
         IN  IF "models_" \notin self.attrs
             THEN [out |-> "AttributeError", R |-> R]
             ELSE IF c_value \notin DOMAIN self.models_
             THEN [out |-> "KeyError", R |-> R]
             ELSE IF "d" \notin self.attrs
             THEN [out |-> "AttributeError", R |-> R]
             ELSE IF ShapeOf(X, self.models_[c_value], self.d) = 0
             THEN [out |-> "ValueError", R |-> R]
             ELSE LET distance_sum ==
                          np_sum(pairwise(X, self.models_[c_value], self.d))
                  IN  SingleScores(self, X, c_idx + 1,
                                   FillColumn(R, c_idx, distance_sum))

SinglePredict(self, X) ==
    IF "classes_" \notin self.attrs THEN Raised("predict", X, "AttributeError")
    ELSE LET r == SingleScores(self, X, 1, Zeros(Len(X), Len(self.classes_)))
         IN  IF r.out # "ok" THEN Raised("predict", X, r.out)
             ELSE Returned("predict", X, "ok",
                           TakeArgmin(self.classes_, r.R), r.R)

\* ---- EnsembleMultimodalEvolutionaryClassifier ------------------------------
\* a source that never looks at the seed
NewRandomStateUnseeded(random_state, entropy) == entropy

\* RandomState() / RandomState(self.random_state) at the start of fit; entropy
\* is what the operating system seeds an unseeded source with
NewRandomState(random_state, entropy) ==
    IF random_state = << >> THEN entropy ELSE SeedState(random_state[1])

\* the inner loop of fit: models i..n_models of one class on the source rs
RECURSIVE EnsClassModels(_, _, _, _, _)
EnsClassModels(rs, X_class, i, self, c_models) ==
    IF i > self.n_models THEN [c_models |-> c_models, rs |-> rs]
    ELSE LET ch       == choice(rs, Len(X_class), Len(X_class))
             X_sample == [j \in DOMAIN X_class |-> X_class[ch.idx[j]]]
             best     == GABest(ch.rs, X_sample, self.n_iterations)
         IN  EnsClassModels(best.rs, X_class, i + 1, self,
                            Append(c_models, best.c))

\* the outer loop of fit over the classes, in the order of classes_
RECURSIVE EnsBuild(_, _, _, _, _, _)
EnsBuild(rs, classes, X, y, self, models) ==
    IF classes = << >> THEN models
    ELSE LET r == EnsClassModels(rs, MaskRows(X, y, Head(classes)), 1, self, << >>)
         IN  EnsBuild(r.rs, Tail(classes), X, y, self,
                      SetAttr(models, Head(classes), r.c_models))

\* fit(X, y); ga_raises: a search raises while the models are built
EnsembleFit(self, X, y, entropy, ga_raises) ==
    LET random_state == NewRandomState(self.random_state, entropy)
        s1 == [self EXCEPT !.classes_ = np_unique(y),
                           !.attrs = @ \cup {"classes_"}]
        s2 == [s1 EXCEPT !.d = ScaleOf(X), !.attrs = @ \cup {"d"}]
    IN  IF ga_raises THEN s2
        ELSE [s2 EXCEPT !.models_ = EnsBuild(random_state, s2.classes_, X, y,
                                             self, models_init(self)),
                        !.attrs = @ \cup {"models_"}]

\* columns of the buffer R: np.zeros((len(X), self.n_models))
BufferWidth(self) == self.n_models

\* the inner loop of predict over the models of one class, from model m_idx on
RECURSIVE EnsModelScores(_, _, _, _, _)
EnsModelScores(self, X, ms, m_idx, R) ==
    IF m_idx > Len(ms) THEN [out |-> "ok", R |-> R]
    ELSE IF "d" \notin self.attrs
    THEN [out |-> "AttributeError", R |-> R]
    ELSE IF ShapeOf(X, ms[m_idx], self.d) = 0
    THEN [out |-> "ValueError", R |-> R]
    ELSE IF m_idx > Len(R[1])
    THEN [out |-> "IndexError", R |-> R]
    ELSE EnsModelScores(self, X, ms, m_idx + 1,
                        SetColumn(R, m_idx, pairwise(X, ms[m_idx], self.d)))

\* the outer loop of predict over the classes, from class c_idx on
RECURSIVE EnsScores(_, _, _, _, _)
EnsScores(self, X, c_idx, R, M) ==
    IF c_idx > Len(self.classes_) THEN [out |-> "ok", M |-> M]
    ELSE LET c_value == self.classes_[c_idx]
         IN  IF "models_" \notin self.attrs
             THEN [out |-> "AttributeError", M |-> M]
             ELSE IF c_value \notin DOMAIN self.models_
             THEN [out |-> "KeyError", M |-> M]
             ELSE LET r == EnsModelScores(self, X, self.models_[c_value], 1, R)
                  IN  IF r.out # "ok" THEN [out |-> r.out, M |-> M]
                      ELSE EnsScores(self, X, c_idx + 1, r.R,
                                     SetColumn(M, c_idx,
                                        [i \in DOMAIN X |-> np_sum(r.R[i])]))

EnsemblePredict(self, X) ==
    IF "classes_" \notin self.attrs THEN Raised("predict", X, "AttributeError")
    ELSE LET r == EnsScores(self, X, 1,
                            Zeros(Len(X), BufferWidth(self)),
                            Zeros(Len(X), Len(self.classes_)))
         IN  IF r.out # "ok" THEN Raised("predict", X, r.out)
             ELSE Returned("predict", X, "ok",
                           TakeArgmin(self.classes_, r.M), r.M)

PredictOf(self, X) ==
    IF self.kind = "single" THEN SinglePredict(self, X)
    ELSE EnsemblePredict(self, X)

\* ---- state ----------------------------------------------------------------
VARIABLES
    clf,     \* the classifier instance under study
    clf2,    \* a second, independent ensemble instance (two-run comparisons)
    ret,     \* what the last call on clf raised or returned
    ret2,    \* the same for clf2
    hist,    \* the last fit call: its arguments and whether it succeeded
    calls    \* number of calls made on the instance so far

vars == <<clf, clf2, ret, ret2, hist, calls>>

NoFit == [fit_called |-> FALSE, fit_ok |-> FALSE, ever_ok |-> FALSE,
          X |-> << >>, y |-> << >>, n_models |-> 0, seen |-> {}]

\* the record of a fit call; a failed call's arguments are not kept.  seen
\* collects the labels of every successful fit so far.
FitRecord(ok, X, y, n) ==
    IF ok
    THEN [fit_called |-> TRUE, fit_ok |-> TRUE, ever_ok |-> TRUE,
          X |-> X, y |-> y, n_models |-> n, seen |-> hist.seen \cup Range(y)]
    ELSE [fit_called |-> TRUE, fit_ok |-> FALSE, ever_ok |-> hist.ever_ok,
          X |-> << >>, y |-> << >>, n_models |-> 0, seen |-> hist.seen]

FitOutcome(ga_raises) ==
    IF ga_raises THEN Raised("fit", << >>, "SearchError")
    ELSE Returned("fit", << >>, "ok", << >>, << >>)

\* what an unseeded source can start from
Entropy == 0..(RsMod - 1)
\* the starts that matter to an instance: a seeded one ignores the entropy
EntropyFor(self) == IF self.random_state = << >> THEN Entropy ELSE {0}

Init ==
    /\ clf \in SingleInstances \cup EnsembleInstances
    /\ clf2 = Construct("none", 0, 0, << >>)
    /\ ret = NoCall
    /\ ret2 = NoCall
    /\ hist = NoFit
    /\ calls = 0

\* MultimodalEvolutionaryClassifier.fit
FitSingle(X, y, ga, ga_raises) ==
    /\ clf.kind = "single"
    /\ calls < MaxCalls
    /\ clf' = SingleFit(clf, X, y, ga, ga_raises)
    /\ ret' = FitOutcome(ga_raises)
    /\ hist' = FitRecord(~ ga_raises, X, y, clf.n_models)
    /\ calls' = calls + 1
    /\ UNCHANGED <<clf2, ret2>>

\* EnsembleMultimodalEvolutionaryClassifier.fit
FitEnsemble(X, y, entropy, ga_raises) ==
    /\ clf.kind = "ensemble"
    /\ calls < MaxCalls
    /\ clf' = EnsembleFit(clf, X, y, entropy, ga_raises)
    /\ ret' = FitOutcome(ga_raises)
    /\ hist' = FitRecord(~ ga_raises, X, y, clf.n_models)
    /\ calls' = calls + 1
    /\ UNCHANGED <<clf2, ret2>>

\* predict of either class
Predict(X) ==
    /\ clf.kind \in {"single", "ensemble"}
    /\ calls < MaxCalls
    /\ ret' = PredictOf(clf, X)
    /\ calls' = calls + 1
    /\ UNCHANGED <<clf, clf2, ret2, hist>>

\* clf.n_models = n on an ensemble instance (an assignment, not a call)
SetNModels(n) ==
    /\ clf.kind = "ensemble"
    /\ n # clf.n_models
    /\ clf' = [clf EXCEPT !.n_models = n]
    /\ ret' = NoCall
    /\ UNCHANGED <<clf2, ret2, hist, calls>>

Next ==
    \/ \E X \in AllTables : \E y \in LabelVectors(Len(X)) :
         \E ga \in SingleSearches(X, y) : \E ga_raises \in BOOLEAN :
            FitSingle(X, y, ga, ga_raises)
    \/ \E X \in AllTables : \E y \in LabelVectors(Len(X)) :
         \E entropy \in EntropyFor(clf) : \E ga_raises \in BOOLEAN :
            FitEnsemble(X, y, entropy, ga_raises)
    \/ \E X \in AllTables : Predict(X)
    \/ \E n \in 1..MaxModels : SetNModels(n)

Spec == Init /\ [][Next]_vars

\* ---- two independent runs of the ensemble classifier ----------------------
\* Two instances built with the same n_iterations and n_models, each with its
\* own seed, are fitted on the same data and asked for the same prediction.
InitDet ==
    /\ clf \in EnsembleInstances
    /\ clf2 \in {c \in EnsembleInstances :
                    c.n_iterations = clf.n_iterations /\ c.n_models = clf.n_models}
    /\ ret = NoCall
    /\ ret2 = NoCall
    /\ hist = NoFit
    /\ calls = 0

FitBoth(X, y, entropy, entropy2) ==
    /\ ~ hist.fit_called
    /\ clf' = EnsembleFit(clf, X, y, entropy, FALSE)
    /\ clf2' = EnsembleFit(clf2, X, y, entropy2, FALSE)
    /\ ret' = FitOutcome(FALSE)
    /\ ret2' = FitOutcome(FALSE)
    /\ hist' = FitRecord(TRUE, X, y, clf.n_models)
    /\ calls' = calls + 1

PredictBoth(X) ==
    /\ hist.fit_ok
    /\ calls < MaxCalls
    /\ ret' = EnsemblePredict(clf, X)
    /\ ret2' = EnsemblePredict(clf2, X)
    /\ calls' = calls + 1
    /\ UNCHANGED <<clf, clf2, hist>>

NextDet ==
    \/ \E X \in AllTables : \E y \in LabelVectors(Len(X)) :
         \E entropy \in Entropy : \E entropy2 \in Entropy :
            FitBoth(X, y, entropy, entropy2)
    \/ \E X \in AllTables : PredictBoth(X)

SpecDet == InitDet /\ [][NextDet]_vars

\* ---- reference definitions for the claims --------------------------------
AllAttrs == {"classes_", "d", "models_"}

RECURSIVE IntSum(_)
IntSum(s) == IF s = << >> THEN 0 ELSE Head(s) + IntSum(Tail(s))

NonZero(d) == \A f \in DOMAIN d : d[f] # 0

\* sum_f |x[f] - c[f]| / d[f] for a scale without zero entry, times Den(d)
RefDistance(x, c, d) ==
    IntSum([f \in DOMAIN x |-> Abs(x[f] - c[f]) * (Den(d) \div d[f])])

\* the first position of the minimum of a sequence of integers
RefFirstMin(v) ==
    CHOOSE k \in DOMAIN v :
        /\ \A j \in DOMAIN v : v[k] <= v[j]
        /\ \A j \in DOMAIN v : j < k => v[j] > v[k]

\* the class whose prototype is nearest to the row x alone
NearestClass(self, x) ==
    self.classes_[RefFirstMin([k \in DOMAIN self.classes_ |->
        RefDistance(x, self.models_[self.classes_[k]], self.d)])]

\* the aggregate of the row x over the models ms of one class, as IEEE value:
\* nan as soon as one term is 0/0, else inf as soon as one term is n/0
RefAggregate(x, ms, d) ==
    LET zero(m, f) == d[f] = 0 /\ x[f] = ms[m][f]
        pole(m, f) == d[f] = 0 /\ x[f] # ms[m][f]
    IN  IF \E m \in DOMAIN ms : \E f \in DOMAIN d : zero(m, f) THEN NaN
        ELSE IF \E m \in DOMAIN ms : \E f \in DOMAIN d : pole(m, f) THEN Inf
        ELSE Fin(IntSum([m \in DOMAIN ms |-> RefDistance(x, ms[m], d)]))

\* the prediction follows a successful fit whose n_models still stands
FreshlyFitted ==
    /\ ret.op = "predict"
    /\ hist.fit_ok
    /\ clf.n_models = hist.n_models

\* ---- claims ---------------------------------------------------------------

\* C1: after a successful fit, the single-prototype predict labels every row i
\* with the class whose prototype is nearest to row i alone (normalized
\* Manhattan distance, ties to the lowest class index).
C1_RowLabelIsNearestPrototype ==
    (/\ clf.kind = "single"
     /\ FreshlyFitted
     /\ NCols(ret.X) = Len(clf.d)
     /\ NonZero(clf.d))
    => /\ ret.out = "ok"
       /\ \A i \in DOMAIN ret.X : ret.labels[i] = NearestClass(clf, ret.X[i])

\* C2: after a successful fit with n_models unchanged, the ensemble's aggregate
\* score of row i and class k is the sum of the normalized distances of row i
\* to exactly the models stored for class k, and, wherever the scores of a row
\* are ordered (none is nan), the label is the class of the minimum aggregate,
\* ties to the lowest class index.
C2_EnsembleAggregate ==
    (/\ clf.kind = "ensemble"
     /\ FreshlyFitted
     /\ NCols(ret.X) = Len(clf.d))
    => /\ ret.out = "ok"
       /\ \A i \in DOMAIN ret.X :
            LET agg == [k \in DOMAIN clf.classes_ |->
                          RefAggregate(ret.X[i], clf.models_[clf.classes_[k]], clf.d)]
            IN  /\ ret.scores[i] = agg
                /\ (\A k \in DOMAIN agg : agg[k].k # "nan")
                   => \E k \in DOMAIN agg :
                        /\ ret.labels[i] = clf.classes_[k]
                        /\ \A j \in DOMAIN agg : ~ flt(agg[j], agg[k])
                        /\ \A j \in DOMAIN agg : j < k => flt(agg[k], agg[j])

C2_Witness ==
    /\ clf.kind = "ensemble"
    /\ FreshlyFitted
    /\ ret.out = "ok"
    /\ clf.n_models = 2
    /\ Len(clf.classes_) = 2
    /\ NonZero(clf.d)
    /\ Len(ret.X) = 2
    /\ ret.labels[1] # ret.labels[2]

\* C3: predict on an instance on which fit has never succeeded ends in a
\* NotFittedError.
C3_PredictBeforeFitIsNotFittedError ==
    (ret.op = "predict" /\ ~ hist.ever_ok) => ret.out = "NotFittedError"

\* C4: after a fit on F feature columns, predict on a table with another
\* number of columns ends in a DimensionError.
C4_ColumnMismatchIsDimensionError ==
    (FreshlyFitted /\ NCols(ret.X) # NCols(hist.X)) => ret.out = "DimensionError"

\* C5: when a feature is constant over the training set (scale entry 0), no
\* prediction is returned: the call ends in a DataError.
C5_ZeroScaleIsDataError ==
    (/\ FreshlyFitted
     /\ NCols(ret.X) = NCols(hist.X)
     /\ ~ NonZero(clf.d))
    => ret.out = "DataError"

C7_PredictTrainingData ==
    (FreshlyFitted /\ ret.X = hist.X)
    => /\ ret.out = "ok"
       /\ Len(ret.labels) = Len(hist.X)
       /\ \A i \in DOMAIN ret.labels : ret.labels[i] \in Range(hist.y)

C7_Witness ==
    /\ FreshlyFitted
    /\ ret.X = hist.X
    /\ ret.out = "ok"
    /\ Len(ret.labels) = 2
    /\ hist.y = <<2, 2>>

\* C8: a fit call that fails leaves the fitted state (class labels, scale
\* vector, models) exactly as it was before the call.
C8_FailedFitChangesNothing ==
    [][(ret'.op = "fit" /\ ret'.out # "ok")
        => /\ clf'.attrs = clf.attrs
           /\ clf'.classes_ = clf.classes_
           /\ clf'.d = clf.d
           /\ clf'.models_ = clf.models_]_vars

\* C9: after a successful fit the fitted state is that of this fit alone: one
\* model key per label of y and no other, the sorted distinct labels of y, the
\* scale of X, one chromosome per class (single) or n_models chromosomes per
\* class (ensemble, n_models as it was at the fit).
C9_FitReplacesFittedState ==
    hist.fit_ok =>
       /\ clf.attrs = AllAttrs
       /\ DOMAIN clf.models_ = Range(hist.y)
       /\ Range(clf.classes_) = Range(hist.y)
       /\ \A i, j \in DOMAIN clf.classes_ :
             i < j => clf.classes_[i] < clf.classes_[j]
       /\ DOMAIN clf.d = 1..NCols(hist.X)
       /\ \A f \in DOMAIN clf.d :
             /\ \E i, j \in DOMAIN hist.X : clf.d[f] = hist.X[i][f] - hist.X[j][f]
             /\ \A i, j \in DOMAIN hist.X : hist.X[i][f] - hist.X[j][f] <= clf.d[f]
       /\ clf.kind = "single" =>
             \A c \in DOMAIN clf.models_ :
                clf.models_[c] \in Chromosomes(NCols(hist.X))
       /\ clf.kind = "ensemble" =>
             \A c \in DOMAIN clf.models_ :
                /\ Len(clf.models_[c]) = hist.n_models
                /\ \A m \in DOMAIN clf.models_[c] :
                      clf.models_[c][m] \in Chromosomes(NCols(hist.X))

C9_Witness ==
    /\ hist.fit_ok
    /\ ret.op = "fit"
    /\ calls = 2
    /\ hist.seen = {1, 2}
    /\ Range(hist.y) = {2}

\* C10: a prediction after n_models was changed succeeds and is the
\* prediction the instance would give with n_models as it was at the fit.
C10_PredictIgnoresNModels ==
    (clf.kind = "ensemble" /\ ret.op = "predict" /\ hist.fit_ok)
    => ret = EnsemblePredict([clf EXCEPT !.n_models = hist.n_models], ret.X)

====
